---- MODULE Spec2Model ----
(***************************************************************************)
(* Channel-wise pruning of a convolutional network, as implemented in      *)
(* blog/posts/2024-08-15-pruning-pt2/index.ipynb:                          *)
(*   get_num_channels_to_keep, channel_prune, get_input_channel_importance,*)
(*   apply_channel_sorting, and the fine-tuning step that updates a model  *)
(*   in place.                                                             *)
(*                                                                         *)
(* Model objects live in `heap` (object identity = position), so that a    *)
(* deep copy and an alias are different things.  `last` records the most   *)
(* recent call: its arguments, a snapshot of the object it was given, what *)
(* it raised or returned, and the per-pair steps of its loop.  `origin` is *)
(* a history variable: how each object was produced and, per convolution,  *)
(* which output channel of its source each remaining position carries.     *)
(*                                                                         *)
(* Numbers: a float prune ratio is the rational num/den; for the ratios    *)
(* of Ratios and channel counts up to 64 the float expression              *)
(* round((1 - r) * c) of Python 3 (round-half-to-even) equals the exact    *)
(* rational computation done here.  A norm is kept in fixed point, to      *)
(* 1/NormScale, rounded down.                                              *)
(***************************************************************************)
EXTENDS Integers, Sequences, FiniteSets, TLC

VARIABLES heap, last, origin

vars == <<heap, last, origin>>

(* ------------------------------ bounds -------------------------------- *)

\* Number of model objects that may exist at once (the loaded one included).
MaxModels == 3

\* Pretrained weight sets the loaded model is drawn from: seeds 0..MaxSeed.
MaxSeed == 3

\* Fixed-point scale of a norm: scores are multiples of 1/NormScale.
NormScale == 100

\* Largest channel count get_num_channels_to_keep is exercised on directly.
MaxKeepChannels == 64

(* ------------------------------ tensors ------------------------------- *)

\* A tensor is its shape and its nested data.  A convolution weight has
\* shape <<c_out, c_in, kh, kw>> and data[o][i][y][x]; a bias has shape
\* <<c_out>> and data[o].

Range(s) == {s[j] : j \in 1..Len(s)}

Min(a, b) == IF a < b THEN a ELSE b

Max(a, b) == IF a > b THEN a ELSE b

\* Python's stop index of the slice [:k] on an axis of length n
\* (a negative k counts from the end).
SliceStop(n, k) == IF k >= 0 THEN Min(k, n) ELSE Max(n + k, 0)

\* weight.detach()[:k, ...] : the first k output-channel slices.
SliceDim0(t, k) ==
    LET m == SliceStop(t.shape[1], k)
    IN  [shape |-> [t.shape EXCEPT ![1] = m],
         data  |-> SubSeq(t.data, 1, m)]

\* weight.detach()[:, :k, ...] : the first k input-channel slices.
SliceDim1(t, k) ==
    LET m == SliceStop(t.shape[2], k)
    IN  [shape |-> [t.shape EXCEPT ![2] = m],
         data  |-> [o \in 1..t.shape[1] |-> SubSeq(t.data[o], 1, m)]]

\* torch.index_select(t, 0, idx)
IndexSelect0(t, idx) ==
    [shape |-> [t.shape EXCEPT ![1] = Len(idx)],
     data  |-> [j \in 1..Len(idx) |-> t.data[idx[j]]]]

\* torch.index_select(t, 1, idx)
IndexSelect1(t, idx) ==
    [shape |-> [t.shape EXCEPT ![2] = Len(idx)],
     data  |-> [o \in 1..t.shape[1] |->
                  [j \in 1..Len(idx) |-> t.data[o][idx[j]]]]]

\* param.numel()
Numel(t) ==
    IF Len(t.shape) = 1 THEN t.shape[1]
    ELSE t.shape[1] * t.shape[2] * t.shape[3] * t.shape[4]

(* ----------------------- get_num_channels_to_keep --------------------- *)

\* Python 3 round() of the rational a/b (b > 0): to the nearest integer,
\* a tie to the even one.
RoundHalfEven(a, b) ==
    LET q == a \div b
        r == a - q * b
    IN  IF 2 * r < b THEN q
        ELSE IF 2 * r > b THEN q + 1
        ELSE IF q % 2 = 0 THEN q ELSE q + 1

\* A mutation of get_num_channels_to_keep: the share pruned, not the share kept.
KeepPrunedShare(channels, prune_ratio) ==
    RoundHalfEven(prune_ratio.num * channels, prune_ratio.den)

\* A mutation of get_num_channels_to_keep: int() without round() truncates.
KeepTruncated(channels, prune_ratio) ==
    ((prune_ratio.den - prune_ratio.num) * channels) \div prune_ratio.den

\* int(round((1 - prune_ratio) * channels))
get_num_channels_to_keep(channels, prune_ratio) ==
    RoundHalfEven((prune_ratio.den - prune_ratio.num) * channels,
                  prune_ratio.den)

(* ------------------------- prune_ratio values ------------------------- *)

Float(n, d) == [type |-> "float", num |-> n, den |-> d]

PyInt(n) == [type |-> "int", num |-> n, den |-> 1]

PyList(items) == [type |-> "list", items |-> items]

\* The float ratios calls are made with: 0.0, 0.25, 0.4, 0.5, 0.6, 1.0.
Ratios == {Float(0, 1), Float(1, 4), Float(2, 5), Float(1, 2), Float(3, 5),
           Float(1, 1)}

\* The floats a per-pair list is built from.
ListRatios == {Float(0, 1), Float(1, 2), Float(1, 1)}

\* Per-pair lists of every length 0..3 (so both right and wrong lengths).
RatioLists ==
    {PyList(<<>>)}
    \cup {PyList(<<a>>) : a \in ListRatios}
    \cup {PyList(<<a, b>>) : a \in ListRatios, b \in ListRatios}
    \cup {PyList(<<a, a, a>>) : a \in ListRatios}

\* Every prune_ratio argument channel_prune is called with.
PruneArgs == Ratios \cup RatioLists \cup {PyInt(0), PyInt(1)}

(* ------------------------------- models ------------------------------- *)

\* The layouts of the feature stack: chans = <<input channels, output
\* channels of convolution 1, of convolution 2, ...>>, and the kernel.
\* bias says whether the convolutions carry a bias (bias=False: None).
Shapes ==
    {[chans |-> <<1, 3, 2>>, kh |-> 1, kw |-> 2, bias |-> TRUE],
     [chans |-> <<2, 2, 3, 2>>, kh |-> 1, kw |-> 1, bias |-> TRUE],
     [chans |-> <<2, 2, 3, 2>>, kh |-> 1, kw |-> 1, bias |-> FALSE]}

\* Number of outputs of the classifier.
NumClasses == 2

\* The pretrained value of element [o][i][y][x] of convolution l's weight,
\* for the weight set `seed`: an integer in -3..3.
PretrainedWeight(seed, l, o, i, y, x) ==
    LET s == seed + 5
    IN  ((s * s + 3 * s * (o + i) + 7 * l + 5 * o * o + 3 * i + 2 * y + x
          + o * i * (s + 1)) % 7) - 3

\* The pretrained value of element [o] of layer l's bias: an integer in -1..1.
PretrainedBias(seed, l, o) == ((seed + 2 * l + o * o) % 3) - 1

\* nn.Conv2d(in_channels, out_channels, kernel_size), with loaded parameters.
Conv2d(seed, l, c_in, c_out, kh, kw, with_bias) ==
    [kind         |-> "Conv2d",
     in_channels  |-> c_in,
     out_channels |-> c_out,
     weight       |-> [shape |-> <<c_out, c_in, kh, kw>>,
                       data  |-> [o \in 1..c_out |-> [i \in 1..c_in |->
                                   [y \in 1..kh |-> [x \in 1..kw |->
                                     PretrainedWeight(seed, l, o, i, y, x)]]]]],
     has_bias     |-> with_bias,
     bias         |-> IF with_bias
                      THEN [shape |-> <<c_out>>,
                            data  |-> [o \in 1..c_out |-> PretrainedBias(seed, l, o)]]
                      ELSE [shape |-> <<0>>, data |-> <<>>]]

ReLU == [kind |-> "ReLU"]

MaxPool2d == [kind |-> "MaxPool2d"]

\* nn.Linear(in_features, out_features), with loaded parameters.
Linear(seed, n_in, n_out) ==
    [kind   |-> "Linear",
     weight |-> [shape |-> <<n_out, n_in, 1, 1>>,
                 data  |-> [o \in 1..n_out |-> [i \in 1..n_in |->
                             <<<<PretrainedWeight(seed, 0, o, i, 1, 1)>>>>]]],
     bias   |-> [shape |-> <<n_out>>,
                 data  |-> [o \in 1..n_out |-> PretrainedBias(seed, 0, o)]]]

\* The feature stack of a VGG-style model: Conv2d, ReLU per convolution, and
\* a MaxPool2d after every second convolution.
RECURSIVE Features(_, _, _)
Features(seed, shape, l) ==
    IF l >= Len(shape.chans) THEN <<>>
    ELSE <<Conv2d(seed, l, shape.chans[l], shape.chans[l + 1],
                  shape.kh, shape.kw, shape.bias), ReLU>>
         \o (IF l % 2 = 0 THEN <<MaxPool2d>> ELSE <<>>)
         \o Features(seed, shape, l + 1)

\* The loaded model: features, then the classifier over the last
\* convolution's channels.
LoadModel(seed, shape) ==
    [features   |-> Features(seed, shape, 1),
     classifier |-> Linear(seed, shape.chans[Len(shape.chans)], NumClasses)]

\* [m for m in model.features if isinstance(m, nn.Conv2d)], as the positions
\* of the convolutions in model.features.
ConvLayers(model) ==
    LET idx == {p \in 1..Len(model.features) : model.features[p].kind = "Conv2d"}
        RECURSIVE Sorted(_)
        Sorted(S) == IF S = {} THEN <<>>
                     ELSE LET lo == CHOOSE a \in S : \A b \in S : a <= b
                          IN  <<lo>> \o Sorted(S \ {lo})
    IN  Sorted(idx)

\* The j-th convolution of a model.
ConvAt(model, j) == model.features[ConvLayers(model)[j]]

NumConv(model) == Len(ConvLayers(model))

(* ---------------------------- call outcomes --------------------------- *)

\* What a call leaves behind: the heap, the exception it raised ("" when it
\* returned), the object it returned (0 when it raised), how many deep
\* copies it made, and what each step of its loop over the pairs used
\* (channel_prune: n_keep; apply_channel_sorting: sort_idx).
Returned(h, ref, steps) ==
    [heap |-> h, raised |-> "", ret |-> ref, copies |-> 1, steps |-> steps]

Raised(h, exc, copies) ==
    [heap |-> h, raised |-> exc, ret |-> 0, copies |-> copies, steps |-> <<>>]

\* A mutation of Deepcopy: no copy, the callee works on the caller's object.
DeepcopyAlias(h, src) == [heap |-> h, ref |-> src]

\* copy.deepcopy(model): a new object with the contents of h[src].
Deepcopy(h, src) == [heap |-> Append(h, h[src]), ref |-> Len(h) + 1]

(* ---------------------------- channel_prune --------------------------- *)

\* A mutation of PrunePair: the next convolution's input channels are left.
PrunePairProducerOnly(model, i, ratio) ==
    LET p == ConvLayers(model)[i]
        prev_conv == model.features[p]
        n_keep == get_num_channels_to_keep(prev_conv.out_channels, ratio)
        new_prev == [prev_conv EXCEPT
                       !.weight = SliceDim0(@, n_keep),
                       !.bias = IF prev_conv.has_bias THEN SliceDim0(@, n_keep) ELSE @]
    IN  [model  |-> [model EXCEPT !.features[p] = new_prev],
         n_keep |-> n_keep]

\* A mutation of PrunePair: the next convolution's bias is truncated too.
PrunePairNextBias(model, i, ratio) ==
    LET p == ConvLayers(model)[i]
        q == ConvLayers(model)[i + 1]
        prev_conv == model.features[p]
        next_conv == model.features[q]
        n_keep == get_num_channels_to_keep(prev_conv.out_channels, ratio)
        new_prev == [prev_conv EXCEPT
                       !.weight = SliceDim0(@, n_keep),
                       !.bias = IF prev_conv.has_bias THEN SliceDim0(@, n_keep) ELSE @]
        new_next == [next_conv EXCEPT
                       !.weight = SliceDim1(@, n_keep),
                       !.bias = IF next_conv.has_bias THEN SliceDim0(@, n_keep) ELSE @]
    IN  [model  |-> [model EXCEPT !.features[p] = new_prev,
                                  !.features[q] = new_next],
         n_keep |-> n_keep]

\* One iteration of channel_prune's loop: pair i (convolution i, i + 1).
PrunePair(model, i, ratio) ==
    LET p == ConvLayers(model)[i]
        q == ConvLayers(model)[i + 1]
        prev_conv == model.features[p]
        next_conv == model.features[q]
        prev_channels == prev_conv.out_channels
        n_keep == get_num_channels_to_keep(prev_channels, ratio)
        new_prev == [prev_conv EXCEPT
                       !.weight = SliceDim0(@, n_keep),
                       !.bias = IF prev_conv.has_bias THEN SliceDim0(@, n_keep) ELSE @]
        new_next == [next_conv EXCEPT !.weight = SliceDim1(@, n_keep)]
    IN  [model  |-> [model EXCEPT !.features[p] = new_prev,
                                  !.features[q] = new_next],
         n_keep |-> n_keep]

\* for i, ratio in enumerate(prune_ratio): from pair i on.
RECURSIVE PruneLoop(_, _, _)
PruneLoop(model, ratios, i) ==
    IF i > Len(ratios) THEN [model |-> model, steps |-> <<>>]
    ELSE LET one  == PrunePair(model, i, ratios[i])
             rest == PruneLoop(one.model, ratios, i + 1)
         IN  [model |-> rest.model, steps |-> <<one.n_keep>> \o rest.steps]

\* A mutation of channel_prune: the copy is made before the arguments are
\* checked.
channel_prune_copy_first(h, src, prune_ratio) ==
    LET c == Deepcopy(h, src)
        n_conv == NumConv(h[src])
    IN  IF prune_ratio.type \notin {"float", "list"}
        THEN Raised(c.heap, "AssertionError", 1)
        ELSE IF prune_ratio.type = "list" /\ Len(prune_ratio.items) # n_conv - 1
        THEN Raised(c.heap, "AssertionError", 1)
        ELSE LET ratios == IF prune_ratio.type = "float"
                           THEN [j \in 1..(n_conv - 1) |-> prune_ratio]
                           ELSE prune_ratio.items
                 r == PruneLoop(c.heap[c.ref], ratios, 1)
             IN  Returned([c.heap EXCEPT ![c.ref] = r.model], c.ref, r.steps)

\* A mutation of channel_prune: the type assertion lets integers through and
\* treats them as the ratio of the same value.
channel_prune_any_number(h, src, prune_ratio) ==
    IF prune_ratio.type \notin {"float", "int", "list"}
    THEN Raised(h, "AssertionError", 0)
    ELSE LET model == h[src]
             n_conv == NumConv(model)
         IN  IF prune_ratio.type = "list" /\ Len(prune_ratio.items) # n_conv - 1
             THEN Raised(h, "AssertionError", 0)
             ELSE LET ratios == IF prune_ratio.type = "list"
                                THEN prune_ratio.items
                                ELSE [j \in 1..(n_conv - 1) |->
                                         Float(prune_ratio.num, prune_ratio.den)]
                      c == Deepcopy(h, src)
                      r == PruneLoop(c.heap[c.ref], ratios, 1)
                  IN  Returned([c.heap EXCEPT ![c.ref] = r.model], c.ref, r.steps)

\* channel_prune(model, prune_ratio), model being object src of heap h.
channel_prune(h, src, prune_ratio) ==
    IF prune_ratio.type \notin {"float", "list"}
    THEN Raised(h, "AssertionError", 0)
    ELSE LET model == h[src]
             n_conv == NumConv(model)
         IN  IF prune_ratio.type = "list" /\ Len(prune_ratio.items) # n_conv - 1
             THEN Raised(h, "AssertionError", 0)
             ELSE LET ratios == IF prune_ratio.type = "float"
                                THEN [j \in 1..(n_conv - 1) |-> prune_ratio]
                                ELSE prune_ratio.items
                      c == Deepcopy(h, src)
                      r == PruneLoop(c.heap[c.ref], ratios, 1)
                  IN  Returned([c.heap EXCEPT ![c.ref] = r.model], c.ref, r.steps)

(* -------------------- get_input_channel_importance -------------------- *)

RECURSIVE SumSeq(_)
SumSeq(s) == IF Len(s) = 0 THEN 0 ELSE s[1] + SumSeq(Tail(s))

\* The largest r with r * r <= n, searched in lo..hi-1.
RECURSIVE ISqrtIn(_, _, _)
ISqrtIn(n, lo, hi) ==
    IF hi - lo <= 1 THEN lo
    ELSE LET mid == (lo + hi) \div 2
         IN  IF mid * mid <= n THEN ISqrtIn(n, mid, hi) ELSE ISqrtIn(n, lo, mid)

\* (46340 is the largest root a 32-bit square allows.)
ISqrt(n) == ISqrtIn(n, 0, Min(n + 1, 46341))

\* weight.detach()[:, i_c] : shape (c_out, kh, kw).
ChannelWeight(weight, i_c) ==
    [shape |-> <<weight.shape[1], weight.shape[3], weight.shape[4]>>,
     data  |-> [o \in 1..weight.shape[1] |-> weight.data[o][i_c]]]

\* The sum of the squares of all elements of a (c_out, kh, kw) tensor.
SumSquares(t) ==
    SumSeq([o \in 1..t.shape[1] |->
      SumSeq([y \in 1..t.shape[2] |->
        SumSeq([x \in 1..t.shape[3] |->
          t.data[o][y][x] * t.data[o][y][x]])])])

\* A mutation of Norm: the sum of the absolute values (the 1-norm).
NormL1(t) ==
    NormScale *
    SumSeq([o \in 1..t.shape[1] |->
      SumSeq([y \in 1..t.shape[2] |->
        SumSeq([x \in 1..t.shape[3] |->
          IF t.data[o][y][x] < 0 THEN 0 - t.data[o][y][x] ELSE t.data[o][y][x]])])])

\* A mutation of Norm: the sum of the elements, signs kept.
NormSigned(t) ==
    NormScale *
    SumSeq([o \in 1..t.shape[1] |->
      SumSeq([y \in 1..t.shape[2] |->
        SumSeq([x \in 1..t.shape[3] |-> t.data[o][y][x]])])])

\* torch.norm(t): the Frobenius norm, in units of 1/NormScale.
Norm(t) == ISqrt(NormScale * NormScale * SumSquares(t))

\* get_input_channel_importance(weight): torch.cat of an empty list raises.
\* The weight the caller holds afterwards is returned beside the scores.
get_input_channel_importance(weight) ==
    LET in_channels == weight.shape[2]
        importances == [i_c \in 1..in_channels |-> Norm(ChannelWeight(weight, i_c))]
    IN  IF in_channels = 0
        THEN [raised |-> "RuntimeError", ret |-> <<>>, weight |-> weight]
        ELSE [raised |-> "", ret |-> importances, weight |-> weight]

(* ------------------------ apply_channel_sorting ----------------------- *)

\* A mutation of Argsort: ascending order.
ArgsortAscending(importance) ==
    {idx \in Permutations(1..Len(importance)) :
       \A j \in 1..Len(importance), k \in 1..Len(importance) :
          j < k => importance[idx[j]] <= importance[idx[k]]}

\* torch.argsort(importance, descending=True): every index order that lists
\* the scores in non-increasing order (equal scores come in any order).
Argsort(importance) ==
    {idx \in Permutations(1..Len(importance)) :
       \A j \in 1..Len(importance), k \in 1..Len(importance) :
          j < k => importance[idx[j]] >= importance[idx[k]]}

\* A mutation of SortPair: the next convolution's input channels stay put.
SortPairProducerOnly(model, i, sort_idx) ==
    LET p == ConvLayers(model)[i]
        prev_conv == model.features[p]
        new_prev == [prev_conv EXCEPT
                       !.weight = IndexSelect0(@, sort_idx),
                       !.bias = IF prev_conv.has_bias THEN IndexSelect0(@, sort_idx) ELSE @]
    IN  [model EXCEPT !.features[p] = new_prev]

\* A mutation of SortPair: the previous convolution's bias stays put.
SortPairWeightOnly(model, i, sort_idx) ==
    LET p == ConvLayers(model)[i]
        q == ConvLayers(model)[i + 1]
        prev_conv == model.features[p]
        next_conv == model.features[q]
        new_prev == [prev_conv EXCEPT !.weight = IndexSelect0(@, sort_idx)]
        new_next == [next_conv EXCEPT !.weight = IndexSelect1(@, sort_idx)]
    IN  [model EXCEPT !.features[p] = new_prev, !.features[q] = new_next]

\* One iteration of apply_channel_sorting's loop, given argsort's answer.
SortPair(model, i, sort_idx) ==
    LET p == ConvLayers(model)[i]
        q == ConvLayers(model)[i + 1]
        prev_conv == model.features[p]
        next_conv == model.features[q]
        new_prev == [prev_conv EXCEPT
                       !.weight = IndexSelect0(@, sort_idx),
                       !.bias = IF prev_conv.has_bias THEN IndexSelect0(@, sort_idx) ELSE @]
        new_next == [next_conv EXCEPT !.weight = IndexSelect1(@, sort_idx)]
    IN  [model EXCEPT !.features[p] = new_prev, !.features[q] = new_next]

\* for i in range(len(conv_layers) - 1): from pair i on.  The set of ways the
\* loop can end: [model, steps, raised].
RECURSIVE SortLoop(_, _)
SortLoop(model, i) ==
    IF i > NumConv(model) - 1
    THEN {[model |-> model, steps |-> <<>>, raised |-> ""]}
    ELSE LET imp == get_input_channel_importance(ConvAt(model, i + 1).weight)
         IN  IF imp.raised # ""
             THEN {[model |-> model, steps |-> <<>>, raised |-> imp.raised]}
             ELSE UNION {
                    {[model  |-> rest.model,
                      steps  |-> <<sort_idx>> \o rest.steps,
                      raised |-> rest.raised] :
                       rest \in SortLoop(SortPair(model, i, sort_idx), i + 1)} :
                    sort_idx \in Argsort(imp.ret)}

\* apply_channel_sorting(model), model being object src of heap h: the set
\* of its possible outcomes.  A copy abandoned by an exception is freed.
apply_channel_sorting(h, src) ==
    LET c == Deepcopy(h, src)
    IN  {IF r.raised # "" THEN Raised(h, r.raised, 1)
         ELSE Returned([c.heap EXCEPT ![c.ref] = r.model], c.ref, r.steps) :
            r \in SortLoop(c.heap[c.ref], 1)}

(* --------------------- parameter count and size ----------------------- *)

\* The block of the notebook's first pruning example.
in_chans == 16

hidden_size == 32

out_chans == 64

\* ConvBlock(in_chans, hidden_size, out_chans): conv1, mp, conv2, with 3x3
\* kernels and biases; the block has no classifier.
ConvBlock(c_in, c_hidden, c_out) ==
    [features   |-> <<Conv2d(0, 1, c_in, c_hidden, 3, 3, TRUE),
                      MaxPool2d,
                      Conv2d(0, 2, c_hidden, c_out, 3, 3, TRUE)>>,
     classifier |-> [kind |-> "None"]]

IsBlock(model) == model.classifier.kind = "None"

\* model.parameters(): the weight and the bias of every layer that has them.
Parameters(model) ==
    LET convs == [j \in 1..NumConv(model) |-> ConvAt(model, j)]
        OfConv(j) == IF convs[j].has_bias
                     THEN <<convs[j].weight, convs[j].bias>>
                     ELSE <<convs[j].weight>>
        RECURSIVE From(_)
        From(j) == IF j > Len(convs) THEN <<>> ELSE OfConv(j) \o From(j + 1)
    IN  From(1) \o (IF model.classifier.kind = "Linear"
                    THEN <<model.classifier.weight, model.classifier.bias>>
                    ELSE <<>>)

\* param.count_nonzero()
CountNonzero(t) ==
    IF Len(t.shape) = 1
    THEN Cardinality({o \in 1..Len(t.data) : t.data[o] # 0})
    ELSE Cardinality({ix \in (1..t.shape[1]) \X (1..t.shape[2])
                               \X (1..t.shape[3]) \X (1..t.shape[4]) :
                        t.data[ix[1]][ix[2]][ix[3]][ix[4]] # 0})

\* A mutation of get_num_parameters: the biases are not counted.
NumWeights(model, count_nonzero_only) ==
    LET params == Parameters(model)
    IN  SumSeq([n \in 1..Len(params) |->
                  IF Len(params[n].shape) = 1 THEN 0
                  ELSE IF count_nonzero_only THEN CountNonzero(params[n])
                  ELSE Numel(params[n])])

\* get_num_parameters(model, count_nonzero_only)
get_num_parameters(model, count_nonzero_only) ==
    LET params == Parameters(model)
    IN  SumSeq([n \in 1..Len(params) |->
                  IF count_nonzero_only THEN CountNonzero(params[n])
                  ELSE Numel(params[n])])

\* The keyword arguments of a get_model_size call: each may be left out.
SizeArgs ==
    {[data_width |-> 8], [data_width |-> 32] , [count_nonzero_only |-> TRUE],
     [data_width |-> 16, count_nonzero_only |-> FALSE],
     [x \in {} |-> 0]}

\* The value of a keyword argument, or its default.
Keyword(args, name, default) ==
    IF name \in DOMAIN args THEN args[name] ELSE default

\* A mutation of get_model_size: the size in bytes.
ModelSizeBytes(model, args) ==
    (get_num_parameters(model, Keyword(args, "count_nonzero_only", FALSE))
       * Keyword(args, "data_width", 32)) \div 8

\* get_model_size(model, data_width=32, count_nonzero_only=False)
get_model_size(model, args) ==
    get_num_parameters(model, Keyword(args, "count_nonzero_only", FALSE))
       * Keyword(args, "data_width", 32)

(* ------------------------------ forward ------------------------------- *)

\* An activation is data[c][t]: channel c, column t of a one-row image.

\* Width of the images the models are run on.
ImageWidth == 2

\* The pixel values of the images.
PixelValues == {-1, 2}

\* The images a model with c_in input channels is run on.
Images(c_in) == [1..c_in -> [1..ImageWidth -> PixelValues]]

Width(act) == IF Len(act) = 0 THEN 0 ELSE Len(act[1])

\* conv(x): output o, column t is bias[o] plus the sum over input channel i
\* and kernel position (y, x) of weight[o][i][y][x] * input[i] at row y,
\* column t + x - 1, the image being zero outside its one row and its width.
ConvForward(conv, act) ==
    LET w == conv.weight
        Pixel(i, y, t) == IF y = 1 /\ t <= Width(act) THEN act[i][t] ELSE 0
    IN  [o \in 1..w.shape[1] |-> [t \in 1..Width(act) |->
          (IF conv.has_bias THEN conv.bias.data[o] ELSE 0)
          + SumSeq([i \in 1..w.shape[2] |->
              SumSeq([y \in 1..w.shape[3] |->
                SumSeq([x \in 1..w.shape[4] |->
                  w.data[o][i][y][x] * Pixel(i, y, t + x - 1)])])])]]

\* One layer of model.features applied to an activation.
LayerForward(layer, act) ==
    IF layer.kind = "Conv2d" THEN ConvForward(layer, act)
    ELSE IF layer.kind = "ReLU"
    THEN [c \in 1..Len(act) |-> [t \in 1..Width(act) |-> Max(act[c][t], 0)]]
    ELSE [c \in 1..Len(act) |-> [t \in 1..(Width(act) \div 2) |->
            Max(act[c][2 * t - 1], act[c][2 * t])]]

RECURSIVE FeaturesForward(_, _, _)
FeaturesForward(features, p, act) ==
    IF p > Len(features) THEN act
    ELSE FeaturesForward(features, p + 1, LayerForward(features[p], act))

\* model(x): the features, the pooling of each channel over its positions
\* (their sum), and the classifier.
Forward(model, x) ==
    LET f == FeaturesForward(model.features, 1, x)
        pooled == [c \in 1..Len(f) |-> SumSeq(f[c])]
        lin == model.classifier
    IN  [o \in 1..lin.weight.shape[1] |->
           lin.bias.data[o]
           + SumSeq([c \in 1..Len(pooled) |-> lin.weight.data[o][c][1][1] * pooled[c]])]

(* ------------------------------ train_step ---------------------------- *)

\* Number of passes of the fine-tuning loop.
epochs == 3

\* What one optimizer.step() adds to every element of every parameter.
Updates == {-1, 1}

\* A tensor with d added to every element.
Stepped(t, d) ==
    IF Len(t.shape) = 1
    THEN [t EXCEPT !.data = [o \in 1..Len(t.data) |-> t.data[o] + d]]
    ELSE [t EXCEPT !.data =
            [o \in 1..Len(t.data) |-> [i \in 1..Len(t.data[o]) |->
              [y \in 1..Len(t.data[o][i]) |-> [x \in 1..Len(t.data[o][i][y]) |->
                t.data[o][i][y][x] + d]]]]]

\* train_step(model, ...): optimizer.step() updates model.parameters() in place.
train_step(model, d) ==
    [features   |-> [p \in 1..Len(model.features) |->
                       IF model.features[p].kind = "Conv2d"
                       THEN [model.features[p] EXCEPT
                               !.weight = Stepped(@, d),
                               !.bias = IF model.features[p].has_bias
                                        THEN Stepped(@, d) ELSE @]
                       ELSE model.features[p]],
     classifier |-> [model.classifier EXCEPT !.weight = Stepped(@, d),
                                             !.bias = Stepped(@, d)]]

(* ------------------------- the notebook's calls ----------------------- *)

\* The record of a call, kept in `last`.
CallRecord(op, src, arg, input, out) ==
    [op |-> op, src |-> src, arg |-> arg, input |-> input,
     raised |-> out.raised, ret |-> out.ret, copies |-> out.copies,
     steps |-> out.steps]

\* History: how the object a call returned was made.  `via` lists the calls
\* that led from the loaded model to it; tags[j][o] is the output channel of
\* the loaded model's convolution j that position o of convolution j carries;
\* trained counts the train_step calls made on the object.
Recorded(op, src, out, tags) ==
    LET rec == [via |-> Append(origin[src].via, op), src |-> src, tags |-> tags,
                trained |-> 0]
    IN  IF out.ret = 0 THEN origin
        ELSE IF out.ret > Len(origin) THEN Append(origin, rec)
        ELSE [origin EXCEPT ![out.ret] = rec]

\* The tags after channel_prune's slices [:n_keep].
PrunedTags(tags, steps) ==
    [j \in 1..Len(tags) |->
       IF j <= Len(steps)
       THEN SubSeq(tags[j], 1, SliceStop(Len(tags[j]), steps[j]))
       ELSE tags[j]]

\* The tags after apply_channel_sorting's index_select by sort_idx.
SortedTags(tags, steps) ==
    [j \in 1..Len(tags) |->
       IF j <= Len(steps) /\ Len(steps[j]) <= Len(tags[j])
       THEN [k \in 1..Len(steps[j]) |-> tags[j][steps[j][k]]]
       ELSE tags[j]]

\* model = vgg16(weights=weights); model.load_state_dict(...)
Init ==
    \E seed \in 0..MaxSeed, shape \in Shapes :
       LET model == LoadModel(seed, shape)
       IN  /\ heap = <<model>>
           /\ last = CallRecord("load", 0, <<seed>>, model, Returned(<<model>>, 1, <<>>))
           /\ origin = <<[via  |-> <<>>,
                          src  |-> 0,
                          tags |-> [j \in 1..NumConv(model) |->
                                      [o \in 1..ConvAt(model, j).weight.shape[1] |-> o]],
                          trained |-> 0]>>

\* The notebook runs on until a call raises: an uncaught exception ends it.
Running == last.raised = ""

\* pruned_model = channel_prune(heap[src], prune_ratio), while fewer than
\* `limit` objects exist.
ChannelPrune(src, prune_ratio, limit) ==
    /\ Running
    /\ Len(heap) < limit
    /\ LET out == channel_prune(heap, src, prune_ratio)
       IN  /\ heap' = out.heap
           /\ last' = CallRecord("channel_prune", src, prune_ratio, heap[src], out)
           /\ origin' = Recorded("channel_prune", src, out,
                                 PrunedTags(origin[src].tags, out.steps))

\* sorted_model = apply_channel_sorting(heap[src])
ApplyChannelSorting(src, limit) ==
    /\ Running
    /\ Len(heap) < limit
    /\ \E out \in apply_channel_sorting(heap, src) :
          /\ heap' = out.heap
          /\ last' = CallRecord("apply_channel_sorting", src, <<>>, heap[src], out)
          /\ origin' = Recorded("apply_channel_sorting", src, out,
                                SortedTags(origin[src].tags, out.steps))

\* n_keep = get_num_channels_to_keep(channels, prune_ratio)
GetNumChannelsToKeep(channels, prune_ratio) ==
    /\ last' = [op |-> "get_num_channels_to_keep", src |-> 0,
                arg |-> [channels |-> channels, prune_ratio |-> prune_ratio],
                input |-> <<>>, raised |-> "",
                ret |-> get_num_channels_to_keep(channels, prune_ratio),
                copies |-> 0, steps |-> <<>>]
    /\ UNCHANGED <<heap, origin>>

\* get_input_channel_importance(conv.weight), conv the j-th convolution of
\* object src.
GetInputChannelImportance(src, j) ==
    /\ Running
    /\ LET weight == ConvAt(heap[src], j).weight
           out == get_input_channel_importance(weight)
       IN  /\ heap' = [heap EXCEPT ![src].features[ConvLayers(heap[src])[j]].weight
                                      = out.weight]
           /\ last' = [op |-> "get_input_channel_importance", src |-> src,
                       arg |-> j, input |-> weight, raised |-> out.raised,
                       ret |-> out.ret, copies |-> 0, steps |-> <<>>]
    /\ UNCHANGED origin

\* block = ConvBlock(in_chans, hidden_size, out_chans)
InitBlock ==
    LET block == ConvBlock(in_chans, hidden_size, out_chans)
    IN  /\ heap = <<block>>
        /\ last = CallRecord("ConvBlock", 0, <<>>, block, Returned(<<block>>, 1, <<>>))
        /\ origin = <<[via  |-> <<>>,
                       src  |-> 0,
                       tags |-> [j \in 1..NumConv(block) |->
                                   [o \in 1..ConvAt(block, j).weight.shape[1] |-> o]],
                       trained |-> 0]>>

\* The cell that prunes the block by hand, in place, at prune_ratio = 0.6:
\* conv1.weight[:n_keep], conv1.bias[:n_keep], conv2.weight[:, :n_keep].
PruneBlock ==
    /\ Running
    /\ IsBlock(heap[1])
    /\ origin[1].via = <<>>
    /\ LET r == PrunePair(heap[1], 1, Float(3, 5))
       IN  /\ heap' = [heap EXCEPT ![1] = r.model]
           /\ last' = [op |-> "prune_block", src |-> 1, arg |-> Float(3, 5),
                       input |-> heap[1], raised |-> "", ret |-> 1,
                       copies |-> 0, steps |-> <<r.n_keep>>]
           /\ origin' = [origin EXCEPT
                           ![1].via = <<"prune_block">>,
                           ![1].tags = PrunedTags(@, <<r.n_keep>>)]

\* get_num_parameters(heap[src], count_nonzero_only)
GetNumParameters(src, count_nonzero_only) ==
    /\ Running
    /\ last' = [op |-> "get_num_parameters", src |-> src,
                arg |-> [count_nonzero_only |-> count_nonzero_only],
                input |-> heap[src], raised |-> "",
                ret |-> get_num_parameters(heap[src], count_nonzero_only),
                copies |-> 0, steps |-> <<>>]
    /\ UNCHANGED <<heap, origin>>

\* get_model_size(heap[src], **args)
GetModelSize(src, args) ==
    /\ Running
    /\ last' = [op |-> "get_model_size", src |-> src, arg |-> args,
                input |-> heap[src], raised |-> "",
                ret |-> get_model_size(heap[src], args),
                copies |-> 0, steps |-> <<>>]
    /\ UNCHANGED <<heap, origin>>

\* Whether the fine-tuning loop has run.
FineTuned == last.op = "train_step"

\* train_step after train_step: the model after the epochs e, e + 1, ...
RECURSIVE TrainLoop(_, _, _)
TrainLoop(model, d, e) ==
    IF e > epochs THEN model ELSE TrainLoop(train_step(model, d), d, e + 1)

\* for epoch in range(epochs): train_step(heap[id], ...), the fine-tuning
\* loop, which ends the notebook; every epoch's update is d.
FineTune(id, d) ==
    /\ Running
    /\ ~FineTuned
    /\ heap' = [heap EXCEPT ![id] = TrainLoop(@, d, 1)]
    /\ last' = [op |-> "train_step", src |-> id, arg |-> d, input |-> heap[id],
                raised |-> "", ret |-> 0, copies |-> 0, steps |-> <<>>]
    /\ origin' = [origin EXCEPT ![id].trained = @ + epochs]

(* --------------------------- specifications --------------------------- *)

\* Any sequence of channel_prune and apply_channel_sorting calls, on any
\* model object, with any argument.
Next ==
    \/ \E src \in 1..Len(heap), prune_ratio \in PruneArgs :
          ChannelPrune(src, prune_ratio, MaxModels)
    \/ \E src \in 1..Len(heap) : ApplyChannelSorting(src, MaxModels)

Spec == Init /\ [][Next]_vars

\* Longer chains of calls (one more object), with the ratios 0.0, 0.5, 1.0.
RepeatRatios == {Float(0, 1), Float(1, 2), Float(1, 1)}

NextRepeat ==
    \/ \E src \in 1..Len(heap), prune_ratio \in RepeatRatios :
          ChannelPrune(src, prune_ratio, MaxModels + 1)
    \/ \E src \in 1..Len(heap) : ApplyChannelSorting(src, MaxModels + 1)

SpecRepeat == Init /\ [][NextRepeat]_vars

\* The notebook's own run: sorting and pruning with channel_pruning_ratio =
\* 0.4, and then the fine-tuning loop on one of the models.
channel_pruning_ratio == Float(2, 5)

NextTrain ==
    \/ \E src \in 1..Len(heap) :
          ~FineTuned /\ ChannelPrune(src, channel_pruning_ratio, MaxModels)
    \/ \E src \in 1..Len(heap) :
          ~FineTuned /\ ApplyChannelSorting(src, MaxModels)
    \/ \E id \in 1..Len(heap), d \in Updates : FineTune(id, d)

SpecTrain == Init /\ [][NextTrain]_vars

\* get_num_channels_to_keep alone, on every channel count 0..MaxKeepChannels.
InitKeep ==
    /\ heap = <<>>
    /\ origin = <<>>
    /\ last = [op |-> "none", src |-> 0, arg |-> <<>>, input |-> <<>>,
               raised |-> "", ret |-> 0, copies |-> 0, steps |-> <<>>]

NextKeep ==
    \E channels \in 0..MaxKeepChannels, prune_ratio \in Ratios :
       GetNumChannelsToKeep(channels, prune_ratio)

SpecKeep == InitKeep /\ [][NextKeep]_vars

\* get_input_channel_importance on the weights of loaded and pruned models.
NextImportance ==
    \/ \E prune_ratio \in Ratios : ChannelPrune(1, prune_ratio, 2)
    \/ \E src \in 1..Len(heap) : \E j \in 1..NumConv(heap[src]) :
          GetInputChannelImportance(src, j)

SpecImportance == Init /\ [][NextImportance]_vars

\* A pipeline on the newest model: the loaded model is pruned once or not at
\* all, and then sorted, and sorted again.
NextForward ==
    \/ \E prune_ratio \in Ratios : ChannelPrune(1, prune_ratio, 2)
    \/ ApplyChannelSorting(Len(heap), MaxModels)

SpecForward == Init /\ [][NextForward]_vars

\* The values of the elements of the weights given to
\* get_input_channel_importance on its own.
WeightValues == {-2, 0, 1}

\* The weights of shape (c_out, c_in, 1, kw) over WeightValues.
Weights(c_out, c_in, kw) ==
    {[shape |-> <<c_out, c_in, 1, kw>>, data |-> d] :
       d \in [1..c_out -> [1..c_in -> [1..1 -> [1..kw -> WeightValues]]]]}

\* importance = get_input_channel_importance(weight), for a weight that
\* belongs to no model.
ImportanceOf(weight) ==
    /\ LET out == get_input_channel_importance(weight)
       IN  last' = [op |-> "get_input_channel_importance", src |-> 0,
                    arg |-> 0, input |-> weight, raised |-> out.raised,
                    ret |-> out.ret, copies |-> 0, steps |-> <<>>]
    /\ UNCHANGED <<heap, origin>>

\* get_input_channel_importance as a function of its argument: on weights
\* with one or two output channels and up to three input channels.
NextScores ==
    \E shape \in {<<2, 2, 1>>, <<1, 3, 1>>, <<1, 2, 2>>, <<2, 1, 2>>, <<0, 2, 1>>} :
       \E weight \in Weights(shape[1], shape[2], shape[3]) : ImportanceOf(weight)

SpecScores == InitKeep /\ [][NextScores]_vars

\* Parameter counts and sizes of the block, pruned by hand, and of the
\* loaded models and the models channel_prune makes of them.
InitSize == Init \/ InitBlock

NextSize ==
    \/ \E src \in 1..Len(heap), prune_ratio \in RepeatRatios :
          ~IsBlock(heap[1]) /\ ChannelPrune(src, prune_ratio, MaxModels)
    \/ PruneBlock
    \/ \E src \in 1..Len(heap), count_nonzero_only \in BOOLEAN :
          GetNumParameters(src, count_nonzero_only)
    \/ \E src \in 1..Len(heap), args \in SizeArgs : GetModelSize(src, args)

SpecSize == InitSize /\ [][NextSize]_vars

(* ------------------------------- claims ------------------------------- *)

\* The last call was channel_prune and it returned a model.
PruneReturned == last.op = "channel_prune" /\ last.raised = ""

\* The last call was apply_channel_sorting and it returned a model.
SortReturned == last.op = "apply_channel_sorting" /\ last.raised = ""

\* The adjacent pairs (i, i + 1) of a model's convolutions.
Pairs(model) == 1..(NumConv(model) - 1)

\* Size of a convolution's output-channel axis, and of its input-channel axis.
OutSize(conv) == conv.weight.shape[1]

InSize(conv) == conv.weight.shape[2]

Identity(n) == [j \in 1..n |-> j]

\* C1.  Shape invariant: in the model channel_prune returns, every adjacent
\* pair (P, C) has size of P.weight's output axis = length of P.bias (when
\* present) = size of C.weight's input axis = the keep-count k computed for
\* the pair.  Fails when the model given was itself pruned before:
\* out_channels still holds the count before that pruning, so k can exceed
\* the channels that are left.
C1_ShapeInvariant ==
    (PruneReturned /\ NumConv(last.input) >= 2) =>
       \A i \in Pairs(last.input) :
          LET P == ConvAt(heap[last.ret], i)
              C == ConvAt(heap[last.ret], i + 1)
              k == last.steps[i]
          IN  /\ OutSize(P) = k
              /\ P.has_bias => P.bias.shape[1] = k
              /\ InSize(C) = k

\* C2 as stated.  For every pair pruned to keep-count k (0 <= k <= channel
\* count) the returned producer's weight and bias are exactly the input
\* model's output-channel slices 0..k-1 and the returned consumer's weight is
\* exactly the input model's input-channel slices 0..k-1.
C2_TruncationKeepsWholeSlices ==
    PruneReturned =>
       \A i \in Pairs(last.input) :
          LET P   == ConvAt(heap[last.ret], i)
              C   == ConvAt(heap[last.ret], i + 1)
              Pin == ConvAt(last.input, i)
              Cin == ConvAt(last.input, i + 1)
              k   == last.steps[i]
          IN  (0 <= k /\ k <= OutSize(Pin)) =>
                 /\ P.weight.data = SubSeq(Pin.weight.data, 1, k)
                 /\ P.has_bias => P.bias.data = SubSeq(Pin.bias.data, 1, k)
                 /\ C.weight.data = [o \in 1..OutSize(Cin) |->
                                       SubSeq(Cin.weight.data[o], 1, k)]

\* C2, amended.  For every pair pruned to keep-count k (0 <= k <= channel
\* count): the returned producer has k output channels, the returned consumer
\* k input channels, and every element they hold is the input model's element
\* at the same indices (bias included): a prefix is kept on the pruned axis,
\* in the same order and with unchanged values, and on its other channel axis
\* a tensor holds the prefix that its other pair left it.
C2_TruncationKeepsPrefix ==
    PruneReturned =>
       \A i \in Pairs(last.input) :
          LET P   == ConvAt(heap[last.ret], i)
              C   == ConvAt(heap[last.ret], i + 1)
              Pin == ConvAt(last.input, i)
              Cin == ConvAt(last.input, i + 1)
              k   == last.steps[i]
          IN  (0 <= k /\ k <= OutSize(Pin)) =>
                 /\ OutSize(P) = k /\ Len(P.weight.data) = k
                 /\ InSize(P) <= InSize(Pin)
                 /\ \A o \in 1..k :
                       /\ Len(P.weight.data[o]) = InSize(P)
                       /\ \A c \in 1..InSize(P) :
                             P.weight.data[o][c] = Pin.weight.data[o][c]
                 /\ P.has_bias =>
                       /\ P.bias.shape = <<k>>
                       /\ P.bias.data = [o \in 1..k |-> Pin.bias.data[o]]
                 /\ InSize(C) = k
                 /\ OutSize(C) <= OutSize(Cin) /\ Len(C.weight.data) = OutSize(C)
                 /\ \A o \in 1..OutSize(C) :
                       /\ Len(C.weight.data[o]) = k
                       /\ \A c \in 1..k :
                             C.weight.data[o][c] = Cin.weight.data[o][c]

\* A three-convolution model was pruned and both pairs lost channels.
C2_Witness ==
    /\ PruneReturned
    /\ NumConv(last.input) = 3
    /\ \A i \in Pairs(last.input) :
          0 < last.steps[i] /\ last.steps[i] < OutSize(ConvAt(last.input, i))

\* The last call was get_num_channels_to_keep.
KeepCalled == last.op = "get_num_channels_to_keep"

\* C3.  The keep-count is round((1 - ratio) * channel_count), rounding to the
\* nearest integer with ties to the even one: 64 channels at ratio 0.6 keep
\* 26, 32 channels at ratio 0.6 keep 13, and for a ratio in [0, 1] the result
\* lies in 0..channel_count.
C3_KeepCountFormula ==
    KeepCalled =>
       LET channels == last.arg.channels
           ratio    == last.arg.prune_ratio
           k        == last.ret
           exact    == (ratio.den - ratio.num) * channels   \* ratio.den * (1 - ratio) * channels
           twice    == 2 * (ratio.den * k - exact)
       IN  /\ -ratio.den <= twice /\ twice <= ratio.den
           /\ (twice = ratio.den \/ twice = -ratio.den) => k % 2 = 0
           /\ (0 <= ratio.num /\ ratio.num <= ratio.den) => (0 <= k /\ k <= channels)
           /\ (channels = 64 /\ ratio = Float(3, 5)) => k = 26
           /\ (channels = 32 /\ ratio = Float(3, 5)) => k = 13

\* get_num_channels_to_keep(64, 0.6) returned 26.
C3_Witness ==
    /\ KeepCalled
    /\ last.arg = [channels |-> 64, prune_ratio |-> Float(3, 5)]
    /\ last.ret = 26

\* C4.  Neither channel_prune nor apply_channel_sorting changes the model it
\* is given: every call leaves all existing model objects as they were and
\* returns a new object, and fine-tuning one model changes no other.
C4_InputNeverMutated ==
    [][ /\ Len(heap') >= Len(heap)
        /\ last'.op \in {"channel_prune", "apply_channel_sorting"} =>
              /\ \A id \in 1..Len(heap) : heap'[id] = heap[id]
              /\ last'.raised = "" =>
                    /\ Len(heap') = Len(heap) + 1
                    /\ last'.ret = Len(heap')
                    /\ last'.src \in 1..Len(heap)
                    /\ heap'[last'.src] = last'.input
        /\ last'.op = "train_step" =>
              \A id \in 1..Len(heap) : id # last'.src => heap'[id] = heap[id]
      ]_vars

\* A pruned or sorted copy was fine-tuned, its weights moved, and the loaded
\* model and the model the copy was made from are still what they were.
C4_Witness ==
    /\ FineTuned
    /\ Len(heap) >= 3
    /\ last.src = Len(heap)
    /\ heap[last.src] # last.input
    /\ origin[last.src].src \in 2..(Len(heap) - 1)

\* channel_prune was called with a list whose length is not n_conv - 1.
BadListGiven ==
    /\ last.op = "channel_prune"
    /\ last.arg.type = "list"
    /\ Len(last.arg.items) # NumConv(last.input) - 1

\* C5.  A ratio list whose length is not (number of convolutions - 1) makes
\* channel_prune fail its assertion before the model is copied: nothing is
\* returned and no model object is created or changed.
C5_BadListFailsBeforeCopy ==
    [][ BadListGiven' =>
           /\ last'.raised = "AssertionError"
           /\ last'.copies = 0
           /\ last'.ret = 0
           /\ heap' = heap
           /\ origin' = origin
      ]_vars

\* channel_prune was given a list of the wrong length, and failed.
C5_Witness == BadListGiven /\ last.raised = "AssertionError"

\* C6.  A single floating-point ratio r is applied to every one of the n - 1
\* adjacent pairs: each of the first n - 1 convolutions keeps
\* round((1 - r) * its channel count) output channels, and the last
\* convolution's output channels are untouched.  Fails on a model that was
\* pruned before, where the count is taken from out_channels and not from the
\* channels the convolution has.
C6_ScalarRatioAppliedToEveryPair ==
    (PruneReturned /\ last.arg.type = "float") =>
       LET n == NumConv(last.input)
           r == last.arg
       IN  /\ \A j \in 1..(n - 1) :
                 OutSize(ConvAt(heap[last.ret], j)) =
                    RoundHalfEven((r.den - r.num) * OutSize(ConvAt(last.input, j)), r.den)
           /\ n >= 1 =>
                 /\ OutSize(ConvAt(heap[last.ret], n)) = OutSize(ConvAt(last.input, n))
                 /\ ConvAt(heap[last.ret], n).bias = ConvAt(last.input, n).bias

\* C7 as stated.  In the model apply_channel_sorting returns, every tensor has
\* the shape it had, and the multiset of channel slices of each tensor (taken
\* whole, along the sorted axis) is that of the input model: the output slices
\* of a producer, with their bias entries, and the input slices of a consumer
\* are the input model's, reordered.
C7_SortingKeepsWholeSlices ==
    SortReturned =>
       \A j \in 1..NumConv(last.input) :
          LET new == ConvAt(heap[last.ret], j)
              old == ConvAt(last.input, j)
              InSlice(conv, c) == [o \in 1..OutSize(conv) |-> conv.weight.data[o][c]]
          IN  /\ new.weight.shape = old.weight.shape
              /\ new.bias.shape = old.bias.shape
              /\ j < NumConv(last.input) =>
                    \E pi \in Permutations(1..OutSize(old)) :
                       \A o \in 1..OutSize(old) :
                          /\ new.weight.data[o] = old.weight.data[pi[o]]
                          /\ new.has_bias => new.bias.data[o] = old.bias.data[pi[o]]
              /\ j > 1 =>
                    \E pi \in Permutations(1..InSize(old)) :
                       \A c \in 1..InSize(old) : InSlice(new, c) = InSlice(old, pi[c])

\* The reordering apply_channel_sorting applied to the output channels of
\* convolution j: the pair's sort index, and none for the last convolution
\* (nor for the input channels of the first, j = 0).
Sigma(j) ==
    IF j \in 1..Len(last.steps) THEN last.steps[j]
    ELSE IF j = 0 THEN Identity(InSize(ConvAt(last.input, 1)))
    ELSE Identity(OutSize(ConvAt(last.input, j)))

\* C7, amended.  Sorting is a lossless permutation: every tensor keeps its
\* shape, every pair's sort index is a bijection on its channels, and each
\* element of the returned model is the input model's element at the permuted
\* indices: weight[o][c] of convolution j comes from weight[s_j(o)][s_(j-1)(c)]
\* and bias[o] from bias[s_j(o)], where s_j is the sort index of the pair
\* whose producer is j (the identity when there is none).  A convolution that
\* is consumer of one pair and producer of the next is reordered on both axes.
C7_SortingIsPermutation ==
    SortReturned =>
       /\ Len(last.steps) = NumConv(last.input) - 1
       /\ \A i \in Pairs(last.input) :
             /\ DOMAIN last.steps[i] = 1..OutSize(ConvAt(last.input, i))
             /\ \A a, b \in DOMAIN last.steps[i] :
                   last.steps[i][a] = last.steps[i][b] => a = b
             /\ \A a \in DOMAIN last.steps[i] : last.steps[i][a] \in DOMAIN last.steps[i]
       /\ \A j \in 1..NumConv(last.input) :
             LET new == ConvAt(heap[last.ret], j)
                 old == ConvAt(last.input, j)
             IN  /\ new.weight.shape = old.weight.shape
                 /\ new.bias.shape = old.bias.shape
                 /\ Len(new.weight.data) = OutSize(old)
                 /\ \A o \in 1..OutSize(old) :
                       /\ Len(new.weight.data[o]) = InSize(old)
                       /\ \A c \in 1..InSize(old) :
                             new.weight.data[o][c] =
                                old.weight.data[Sigma(j)[o]][Sigma(j - 1)[c]]
                       /\ new.has_bias => new.bias.data[o] = old.bias.data[Sigma(j)[o]]

\* A three-convolution model with biases was sorted, and both pairs were
\* really reordered.
C7_Witness ==
    /\ SortReturned
    /\ NumConv(last.input) = 3
    /\ ConvAt(last.input, 1).has_bias
    /\ \A i \in Pairs(last.input) :
          last.steps[i] # Identity(OutSize(ConvAt(last.input, i)))

\* C8.  With only per-channel element-wise layers between adjacent
\* convolutions, the model apply_channel_sorting returns computes the same
\* output as the model it was given, on every input.
C8_SortingPreservesOutput ==
    SortReturned =>
       \A x \in Images(InSize(ConvAt(last.input, 1))) :
          Forward(heap[last.ret], x) = Forward(last.input, x)

\* A model was sorted into a different model, and its output is not the same
\* for all inputs.
C8_Witness ==
    /\ SortReturned
    /\ heap[last.ret] # last.input
    /\ \E x, y \in Images(InSize(ConvAt(last.input, 1))) :
          Forward(last.input, x) # Forward(last.input, y)

\* Importance of input channel c of a weight, as the square of its norm.
SquaredImportance(weight, c) == SumSquares(ChannelWeight(weight, c))

\* C9.  channel_prune(apply_channel_sorting(m), r) keeps, for every pair, the
\* k = round((1 - r) * channel count) producer channels of m with the largest
\* importance, importance being measured on the consumer's weight in m: k
\* channels of m survive and none of them is less important than a channel
\* that was dropped.  Fails when m was pruned before: the keep-count comes
\* from the channel count before that pruning.
C9_SortThenPruneKeepsTopK ==
    (/\ PruneReturned
     /\ last.arg.type = "float"
     /\ origin[last.src].via # <<>>
     /\ origin[last.src].via[Len(origin[last.src].via)] = "apply_channel_sorting") =>
       LET m == origin[last.src].src
           r == last.arg
       IN  \A i \in Pairs(heap[m]) :
              LET count == OutSize(ConvAt(heap[m], i))
                  k     == RoundHalfEven((r.den - r.num) * count, r.den)
                  imp(c) == SquaredImportance(ConvAt(heap[m], i + 1).weight, c)
                  Kept  == {c \in 1..count :
                              \E q \in DOMAIN origin[last.ret].tags[i] :
                                 origin[last.ret].tags[i][q] = origin[m].tags[i][c]}
              IN  /\ Cardinality(Kept) = k
                  /\ \A a \in Kept : \A b \in (1..count) \ Kept : imp(a) >= imp(b)

\* The last call was get_input_channel_importance.
ImportanceCalled == last.op = "get_input_channel_importance"

\* C10.  For a weight W of shape (c_out, c_in, kh, kw),
\* get_input_channel_importance(W) returns a vector of c_in scores, score i
\* being the Euclidean norm of W[:, i] (here to 1/NormScale, rounded down),
\* and leaves W as it was.  Fails for c_in = 0: concatenating no scores
\* raises.
C10_ImportanceIsChannelNorm ==
    ImportanceCalled =>
       LET W == last.input
       IN  /\ last.raised = ""
           /\ Len(last.ret) = W.shape[2]
           /\ \A c \in 1..W.shape[2] :
                 LET exact == NormScale * NormScale * SquaredImportance(W, c)
                 IN  /\ last.ret[c] >= 0
                     /\ last.ret[c] * last.ret[c] <= exact
                     /\ exact < (last.ret[c] + 1) * (last.ret[c] + 1)
           /\ ConvAt(heap[last.src], last.arg).weight = W

\* Every element of input channel c of a weight is 0.
ZeroChannel(weight, c) ==
    \A o \in 1..weight.shape[1] : \A y \in 1..weight.shape[3] :
       \A x \in 1..weight.shape[4] : weight.data[o][c][y][x] = 0

\* C11 (on SpecScores).  Every score get_input_channel_importance returns is non-negative,
\* and the score of an input channel is 0 exactly when every element of the
\* channel's slice is 0 (an all-zero weight gives an all-zero score vector).
C11_ScoresNonNegativeZeroIffZero ==
    (ImportanceCalled /\ last.raised = "") =>
       \A c \in 1..Len(last.ret) :
          /\ last.ret[c] >= 0
          /\ last.ret[c] = 0 <=> ZeroChannel(last.input, c)

\* Scores were returned for a weight with an all-zero input channel and
\* another that is not: the first scored 0 and the second more.
C11_Witness ==
    /\ ImportanceCalled
    /\ last.raised = ""
    /\ \E c, d \in 1..Len(last.ret) :
          /\ ZeroChannel(last.input, c) /\ last.ret[c] = 0
          /\ ~ZeroChannel(last.input, d) /\ last.ret[d] > 0

\* C12.  Ratio 0.0 is the identity: for every model, loaded or returned by an
\* earlier channel_prune, channel_prune(model, 0.0) returns a model with the
\* channel counts, the parameter count and all the weight and bias values of
\* the model it was given.
C12_RatioZeroIsIdentity ==
    (PruneReturned /\ last.arg = Float(0, 1)) =>
       LET new == heap[last.ret]
           old == last.input
       IN  /\ NumConv(new) = NumConv(old)
           /\ \A j \in 1..NumConv(old) :
                 /\ OutSize(ConvAt(new, j)) = OutSize(ConvAt(old, j))
                 /\ InSize(ConvAt(new, j)) = InSize(ConvAt(old, j))
                 /\ ConvAt(new, j).weight = ConvAt(old, j).weight
                 /\ ConvAt(new, j).bias = ConvAt(old, j).bias
           /\ new.classifier = old.classifier
           /\ get_num_parameters(new, FALSE) = get_num_parameters(old, FALSE)
           /\ Parameters(new) = Parameters(old)

\* A model that an earlier channel_prune had left with fewer channels than
\* out_channels says was pruned with ratio 0.0.
C12_Witness ==
    /\ PruneReturned
    /\ last.arg = Float(0, 1)
    /\ origin[last.src].via # <<>>
    /\ origin[last.src].via[Len(origin[last.src].via)] = "channel_prune"
    /\ \E i \in Pairs(last.input) :
          /\ 0 < OutSize(ConvAt(last.input, i))
          /\ OutSize(ConvAt(last.input, i)) < ConvAt(last.input, i).out_channels

\* C13.  Pruning shrinks the model: get_num_parameters of the model
\* channel_prune returns is the sum over the convolutions j of
\* k_j * k_(j-1) * kh * kw weights plus k_j biases (k_j the keep-count of the
\* pair convolution j produces for, k_0 the first convolution's input
\* channels, k_n the last one's output channels) plus every other layer's
\* count; it is below the original's whenever a pair has k below its
\* channel count; and the 16->32->64 block of 3x3 convolutions goes from 23136
\* to 9437 parameters at ratio 0.6.  Fails for a model pruned before, whose
\* keep-counts come from out_channels and exceed the channels that are left.
C13_PruningShrinksParameterCount ==
    /\ PruneReturned =>
          LET new == heap[last.ret]
              old == last.input
              n   == NumConv(old)
              k(j) == IF j = 0 THEN InSize(ConvAt(old, 1))
                      ELSE IF j = n THEN OutSize(ConvAt(old, n))
                      ELSE last.steps[j]
              OfConv(j) ==
                 LET w == ConvAt(old, j).weight
                 IN  k(j) * k(j - 1) * w.shape[3] * w.shape[4]
                     + (IF ConvAt(old, j).has_bias THEN k(j) ELSE 0)
              others == Numel(old.classifier.weight) + Numel(old.classifier.bias)
          IN  /\ get_num_parameters(new, FALSE) =
                    SumSeq([j \in 1..n |-> OfConv(j)]) + others
              /\ (\E i \in Pairs(old) : last.steps[i] < OutSize(ConvAt(old, i))) =>
                    get_num_parameters(new, FALSE) < get_num_parameters(old, FALSE)
    /\ last.op = "prune_block" =>
          /\ get_num_parameters(last.input, FALSE) = 23136
          /\ get_num_parameters(heap[last.src], FALSE) = 9437

\* The last call was get_model_size.
SizeCalled == last.op = "get_model_size"

\* C14.  get_model_size(model, data_width) returns get_num_parameters(model)
\* times data_width bits, data_width being 32 when it is not given (and the
\* count being that of the nonzero elements only when the caller asks for
\* it), for every model, pruned ones included, and leaves the model as it was.
C14_ModelSizeIsCountTimesWidth ==
    SizeCalled =>
       LET model == last.input
           width == IF "data_width" \in DOMAIN last.arg
                    THEN last.arg.data_width ELSE 32
           nonzero == "count_nonzero_only" \in DOMAIN last.arg
                         /\ last.arg.count_nonzero_only
       IN  /\ last.raised = ""
           /\ last.ret = get_num_parameters(model, nonzero) * width
           /\ ~nonzero =>
                 last.ret = width * SumSeq([n \in 1..Len(Parameters(model)) |->
                                              Numel(Parameters(model)[n])])
           /\ heap[last.src] = model

\* get_model_size was called with the default data_width on a model that
\* channel_prune had made smaller than the model it came from.
C14_Witness ==
    /\ SizeCalled
    /\ DOMAIN last.arg = {}
    /\ origin[last.src].via = <<"channel_prune">>
    /\ last.ret = 32 * get_num_parameters(heap[last.src], FALSE)
    /\ get_num_parameters(heap[last.src], FALSE) > 0
    /\ get_num_parameters(heap[last.src], FALSE)
          < get_num_parameters(heap[origin[last.src].src], FALSE)

\* channel_prune was called with a float, or with a list of the right length.
RatioAccepted ==
    /\ last.op = "channel_prune"
    /\ \/ last.arg.type = "float"
       \/ /\ last.arg.type = "list"
          /\ Len(last.arg.items) = NumConv(last.input) - 1

\* The ratio of pair i in the argument of the last channel_prune call.
RatioOfPair(i) == IF last.arg.type = "float" THEN last.arg ELSE last.arg.items[i]

\* C15.  When a prune ratio gives a keep-count that is zero or negative
\* (ratio 1.0, or a ratio above 1), channel_prune raises an error and returns
\* no pruned model.  Fails: the slices [:0] and [:, :0] are legal, and a model
\* with empty tensors is returned.
C15_NonPositiveKeepCountFails ==
    (/\ RatioAccepted
     /\ \E i \in Pairs(last.input) :
           get_num_channels_to_keep(ConvAt(last.input, i).out_channels,
                                    RatioOfPair(i)) <= 0) =>
       /\ last.raised # ""
       /\ last.ret = 0

\* C16.  Per-pair ratios: given a list [r_1, ..., r_(n-1)] for a model with n
\* convolutions, r_j is applied to the pair (convolution j, convolution j+1),
\* so that a convolution j+1 between two pairs has in the returned model the
\* weight shape (k_(j+1), k_j, kh, kw), k_j = round((1 - r_j) * channels_j),
\* and the values of the input model's weight on the first k_(j+1) output and
\* first k_j input channels.  Fails for a model pruned before, where
\* channels_j is read from out_channels.
C16_ListRatiosApplyPerPair ==
    (PruneReturned /\ last.arg.type = "list") =>
       \A j \in 1..(NumConv(last.input) - 2) :
          LET new == ConvAt(heap[last.ret], j + 1).weight
              old == ConvAt(last.input, j + 1).weight
              k(i) == LET r == last.arg.items[i]
                      IN  RoundHalfEven((r.den - r.num) * OutSize(ConvAt(last.input, i)),
                                        r.den)
          IN  /\ new.shape = <<k(j + 1), k(j), old.shape[3], old.shape[4]>>
              /\ Len(new.data) = k(j + 1)
              /\ \A o \in 1..k(j + 1) :
                    /\ Len(new.data[o]) = k(j)
                    /\ \A c \in 1..k(j) : new.data[o][c] = old.data[o][c]

\* The model given to the last call was itself returned by channel_prune.
Repruned ==
    /\ PruneReturned
    /\ origin[last.src].via # <<>>
    /\ origin[last.src].via[Len(origin[last.src].via)] = "channel_prune"

\* C17.  Re-pruning uses the current channel count:
\* channel_prune(channel_prune(m, r1), r2) leaves every pair with
\* round((1 - r2) * k1) channels, k1 being the pair's channel count after the
\* first prune (the size of the producer weight's output axis).  Fails: the
\* count is read from out_channels, which the first prune did not update.
C17_RepruningUsesCurrentCount ==
    (Repruned /\ last.arg.type = "float") =>
       \A i \in Pairs(last.input) :
          LET k1 == OutSize(ConvAt(last.input, i))
              k2 == RoundHalfEven((last.arg.den - last.arg.num) * k1, last.arg.den)
          IN  /\ OutSize(ConvAt(heap[last.ret], i)) = k2
              /\ InSize(ConvAt(heap[last.ret], i + 1)) = k2

\* The input-channel importances of convolution j of a model.
ImportanceAt(model, j) == get_input_channel_importance(ConvAt(model, j).weight).ret

\* C18.  In the model apply_channel_sorting returns, every consumer
\* (convolutions 2..n) has its input-channel importances, computed again on
\* the returned model, in non-increasing order along the input-channel axis:
\* sorting a later pair does not break the order of an earlier one.
C18_SortedImportancesNonIncreasing ==
    SortReturned =>
       \A j \in 2..NumConv(last.input) :
          LET imp == ImportanceAt(heap[last.ret], j)
          IN  /\ Len(imp) = InSize(ConvAt(last.input, j))
              /\ \A c \in 1..(Len(imp) - 1) : imp[c] >= imp[c + 1]

\* A three-convolution model was sorted, both pairs were reordered, and in
\* the result the importances of each consumer really fall somewhere.
C18_Witness ==
    /\ SortReturned
    /\ NumConv(last.input) = 3
    /\ \A i \in Pairs(last.input) :
          /\ last.steps[i] # Identity(OutSize(ConvAt(last.input, i)))
          /\ LET imp == ImportanceAt(heap[last.ret], i + 1)
             IN  imp[1] > imp[Len(imp)]

DistinctImportances(model) ==
    \A j \in 2..NumConv(model) :
       LET imp == ImportanceAt(model, j)
       IN  \A a, b \in 1..Len(imp) : imp[a] = imp[b] => a = b

\* The model given to the last apply_channel_sorting call was itself returned
\* by apply_channel_sorting.
SortedAgain ==
    /\ SortReturned
    /\ origin[last.src].via # <<>>
    /\ origin[last.src].via[Len(origin[last.src].via)] = "apply_channel_sorting"

\* C20.  Sorting is idempotent: for a model m in which the input-channel
\* importances of every consumer are pairwise distinct,
\* apply_channel_sorting(apply_channel_sorting(m)) has exactly the weight and
\* bias tensors of apply_channel_sorting(m).
C20_SortingIsIdempotent ==
    (SortedAgain /\ DistinctImportances(heap[origin[last.src].src])) =>
       /\ Parameters(heap[last.ret]) = Parameters(last.input)
       /\ \A j \in 1..NumConv(last.input) :
             /\ ConvAt(heap[last.ret], j).weight = ConvAt(last.input, j).weight
             /\ ConvAt(heap[last.ret], j).bias = ConvAt(last.input, j).bias

\* A three-convolution model with distinct importances was sorted, which
\* reordered both pairs, and the result was sorted again.
C20_Witness ==
    /\ SortedAgain
    /\ NumConv(last.input) = 3
    /\ DistinctImportances(heap[origin[last.src].src])
    /\ \A i \in Pairs(last.input) :
          ConvAt(last.input, i).weight # ConvAt(heap[origin[last.src].src], i).weight

\* The model given to the last channel_prune call was returned by
\* apply_channel_sorting.
PrunedAfterSort ==
    /\ PruneReturned
    /\ origin[last.src].via # <<>>
    /\ origin[last.src].via[Len(origin[last.src].via)] = "apply_channel_sorting"

\* A sequence of scores is in non-increasing order.
NonIncreasing(imp) == \A c \in 1..(Len(imp) - 1) : imp[c] >= imp[c + 1]

\* C21 as stated.  In the model channel_prune(apply_channel_sorting(m), r)
\* returns, the input-channel importances of every consumer, computed again
\* on the pruned weights (over the output channels the consumer has left),
\* are in non-increasing order along the input-channel axis.
C21_PrunedImportancesNonIncreasing ==
    PrunedAfterSort =>
       \A j \in 2..NumConv(last.input) : NonIncreasing(ImportanceAt(heap[last.ret], j))

\* C21, amended.  In the model channel_prune(apply_channel_sorting(m), r)
\* returns, the input channels every consumer keeps are those that come first
\* in the sorted model, whose importances there (over all the output channels
\* the consumer had when it was sorted) are in non-increasing order; computed
\* again on the pruned weights, the importances are in non-increasing order
\* for the last convolution, whose output channels no pair truncates, and
\* for any consumer that lost no output channel.
C21_KeptImportancesNonIncreasing ==
    PrunedAfterSort =>
       \A j \in 2..NumConv(last.input) :
          LET new    == ConvAt(heap[last.ret], j)
              old    == ConvAt(last.input, j)
              sorted == ImportanceAt(last.input, j)
              pruned == ImportanceAt(heap[last.ret], j)
          IN  /\ NonIncreasing(sorted)
              /\ InSize(new) <= InSize(old)
              /\ \A o \in 1..OutSize(new) : \A c \in 1..InSize(new) :
                    new.weight.data[o][c] = old.weight.data[o][c]
              /\ \A c \in 1..Len(pruned) : pruned[c] <= sorted[c]
              /\ OutSize(new) = OutSize(old) =>
                    /\ NonIncreasing(pruned)
                    /\ \A c \in 1..Len(pruned) : pruned[c] = sorted[c]
              /\ j = NumConv(last.input) => OutSize(new) = OutSize(old)

\* A sorted three-convolution model was pruned; its middle convolution lost
\* output channels and kept several input channels, the last convolution kept
\* several input channels of different importance.
C21_Witness ==
    /\ PrunedAfterSort
    /\ NumConv(last.input) = 3
    /\ OutSize(ConvAt(heap[last.ret], 2)) < OutSize(ConvAt(last.input, 2))
    /\ InSize(ConvAt(heap[last.ret], 2)) >= 2
    /\ LET imp == ImportanceAt(heap[last.ret], 3)
       IN  Len(imp) >= 2 /\ imp[1] > imp[Len(imp)]

\* channel_prune was called with a prune_ratio that is neither a float nor a
\* list.
BadTypeGiven ==
    /\ last.op = "channel_prune"
    /\ last.arg.type \notin {"float", "list"}

\* C22.  channel_prune accepts a prune_ratio only if it is a float or a list:
\* any other value, the integers 0 and 1 included, fails the type assertion
\* before the model is copied or any tensor is modified, so nothing is
\* returned and no model object is created or changed; a call that passes the
\* assertions was given a float or a list.
C22_OnlyFloatOrListAccepted ==
    [][ /\ BadTypeGiven' =>
              /\ last'.raised = "AssertionError"
              /\ last'.copies = 0
              /\ last'.ret = 0
              /\ last'.steps = <<>>
              /\ heap' = heap
              /\ origin' = origin
        /\ (last'.op = "channel_prune" /\ last'.raised # "AssertionError") =>
              last'.arg.type \in {"float", "list"}
      ]_vars

\* channel_prune(model, 1), the integer, was called on a model that an
\* earlier call returned, and failed its assertion.
C22_Witness ==
    /\ BadTypeGiven
    /\ last.arg = PyInt(1)
    /\ last.src >= 2
    /\ last.raised = "AssertionError"

====
